---- MODULE Spec2Model ----
(***************************************************************************)
(* Model of transport/grpc/pool.go: the ConnPool interface and its two     *)
(* implementations, singleConnPool and roundRobinConnPool, called by       *)
(* concurrent goroutines.                                                  *)
(*                                                                         *)
(* Program state: the pools' fields (conn; conns, idx), the number of      *)
(* times each grpc.ClientConn has had Close invoked, and every goroutine's *)
(* position and locals.  The remaining variables are history: what each    *)
(* call observed and returned, kept so that the properties can be stated.  *)
(***************************************************************************)
EXTENDS Naturals, Sequences, FiniteSets, TLC

\* ------------------------------------------------------------------ bounds
MaxN == 3         \* largest len(p.conns) a round-robin pool is built with
MaxOps == 4       \* Conn() and Close() calls started in one behaviour
MaxErrs == 3      \* longest multiError value whose Error() is called
WrapWindow == 2   \* how far below 2^32 a window of calls near the wrap starts

\* Close() calls among the MaxOps calls: at most half of them.
MaxCloses == MaxOps \div 2

\* ------------------------------------------------------- program constants
\* idx is a uint32: atomic.AddUint32 wraps modulo 2^32.  TLC's integers are
\* 32-bit signed, so a uint32 is held exactly as its two 16-bit halves,
\* [hi, lo] standing for hi * 2^16 + lo, and 2^32 = Half * Half.
Half == 65536
U32(h, l) == [hi |-> h, lo |-> l]
Zero32 == U32(0, 0)
MaxUint32 == U32(Half - 1, Half - 1)

\* The ClientConns the dialer hands to the pools.
ConnNames == <<"A", "B", "C", "D", "E", "F">>
SingleConnName == "H"
AllConns == {ConnNames[j] : j \in 1..Len(ConnNames)} \cup {SingleConnName}

\* The error value nil, and the non-nil error a ClientConn's Close may give:
\* each conn has an error value of its own, so that errors can be told apart.
Nil == "nil"
ErrNames == <<"errA", "errB", "errC", "errD", "errE", "errF">>
ErrOf(h) ==
  IF h = SingleConnName THEN "errH"
  ELSE ErrNames[CHOOSE j \in 1..Len(ConnNames) : ConnNames[j] = h]
CloseOutcomes(h) == {Nil, ErrOf(h)}

\* The goroutines calling into the pools.  Every call is one goroutine's, and
\* calls interact only through idx (one atomic step) and the conns, so two
\* goroutines give every overlap of two calls.
Threads == {"g1", "g2"}

VARIABLES
  conn,        \* singleConnPool.conn, per single pool
  conns,       \* roundRobinConnPool.conns, per round-robin pool
  idx,         \* roundRobinConnPool.idx, per round-robin pool
  closeCount,  \* per ClientConn: how many times its Close has been invoked
  pc,          \* per goroutine: where it is
  rcv,         \* per goroutine: the receiver p of the call it is in
  i,           \* per goroutine: the local i of roundRobinConnPool.Conn
  k,           \* per goroutine: position of the range loop of Close (1-based)
  errs,        \* per goroutine: the local errs of roundRobinConnPool.Close
  call,        \* per goroutine: the number of the Close call it is in (history)
  nConns,      \* Conn calls started so far (history)
  idx0,        \* idx at the start of the modelled window (history)
  ticks,       \* per round-robin pool: results of AddUint32, in order (history)
  rrRet,       \* per round-robin pool: [i, conn] of returned Conn calls (history)
  singleRet,   \* per single pool: conns returned by Conn (history)
  late,        \* per pool: Conn calls begun after a Close call on the pool
               \* had returned (history)
  closeLog,    \* per Close call, in order of start: its pool, the conns whose
               \* Close it invoked, what each gave, and its result (history)
  merr,        \* a multiError value, the receiver m of multiError.Error
  text         \* what m.Error() returned, once it has been called

progVars == <<conn, conns, idx, closeCount>>
threadVars == <<pc, rcv, i, k, errs, call>>
connHist == <<nConns, idx0, ticks, rrRet, singleRet, late>>
textVars == <<merr, text>>
vars == <<conn, conns, idx, closeCount, pc, rcv, i, k, errs, call,
          nConns, idx0, ticks, rrRet, singleRet, late, closeLog, merr, text>>

SinglePools == DOMAIN conn
RRPools == DOMAIN conns
Pools == SinglePools \cup RRPools

\* Calls started so far; a new call may start while the budget lasts.
nCloses == Len(closeLog)
MayConn == nConns + nCloses < MaxOps
MayClose == nConns + nCloses < MaxOps /\ nCloses < MaxCloses

\* A Close call on pool p has returned.
Closed(p) == \E c \in 1..Len(closeLog) : closeLog[c].pool = p /\ closeLog[c].ret.kind # "pending"

\* A Conn call on p begins: it is counted if a Close call on p has returned.
LateAfter(p) == [late EXCEPT ![p] = IF Closed(p) THEN @ + 1 ELSE @]

\* -------------------------------------------------------------- error values
\* A value of Go's error interface as Close() returns it: nil, the error a
\* ClientConn gave, or a multiError holding a sequence of them.
NoError == [kind |-> "nil", err |-> Nil, errs |-> <<>>]
RawError(e) == IF e = Nil THEN NoError ELSE [kind |-> "error", err |-> e, errs |-> <<>>]
MultiError(es) == [kind |-> "multiError", err |-> Nil, errs |-> es]
\* The result of a Close call that has not returned yet.
Pending == [kind |-> "pending", err |-> Nil, errs |-> <<>>]

\* ------------------------------------------------------------------- helpers
\* A variant of AddUint32 whose increment is doubled.
AddUint32Twice(v, d) ==
  U32((v.hi + ((v.lo + d + d) \div Half)) % Half, (v.lo + d + d) % Half)

\* atomic.AddUint32(&p.idx, delta): the new value, modulo 2^32 (delta < 2^16):
\* the low half is added to, and its carry goes to the high half, whose own
\* carry is dropped.
AddUint32(v, d) ==
  U32((v.hi + ((v.lo + d) \div Half)) % Half, (v.lo + d) % Half)

\* A variant that indexes from the value before the increment, i - 1.
ConnIndexFromOld(iv, n) == ((iv.hi % n) * (Half % n) + (iv.lo % n) + n - 1) % n

\* A variant that moves to the next conn on every other call only.
ConnIndexEveryOther(iv, n) ==
  (((iv.hi % n) * ((Half \div 2) % n) + ((iv.lo \div 2) % n)) % n)

\* A variant whose modulus is one too large.
ConnIndexModLenPlusOne(iv, n) ==
  ((iv.hi % (n + 1)) * (Half % (n + 1)) + (iv.lo % (n + 1))) % (n + 1)

\* i % uint32(len(p.conns)): (hi * 2^16 + lo) mod n, computed on the halves.
ConnIndex(iv, n) == ((iv.hi % n) * (Half % n) + (iv.lo % n)) % n

\* p.conns[i%uint32(len(p.conns))]  (Go slices are 0-based, sequences 1-based)
RRSelect(p, iv) == conns[p][ConnIndex(iv, Len(conns[p])) + 1]

\* ---------------------------------------------------------------------- Init
\* A pool is constructed with idx = 0.  A pool that has already served
\* 2^32 - WrapWindow Conn calls has idx = 2^32 - WrapWindow: the modelled
\* window of calls starts there or right after construction.
StartIdx == {Zero32, U32(Half - 1, Half - WrapWindow)}

InitThreads ==
  /\ pc = [t \in Threads |-> "idle"]
  /\ rcv = [t \in Threads |-> "none"]
  /\ i = [t \in Threads |-> Zero32]
  /\ k = [t \in Threads |-> 0]
  /\ errs = [t \in Threads |-> <<>>]
  /\ call = [t \in Threads |-> 0]

InitHistory ==
  /\ nConns = 0
  /\ idx0 = idx
  /\ ticks = [p \in DOMAIN conns |-> <<>>]
  /\ rrRet = [p \in DOMAIN conns |-> <<>>]
  /\ singleRet = [p \in DOMAIN conn |-> <<>>]
  /\ late = [p \in DOMAIN conn \cup DOMAIN conns |-> 0]
  /\ closeLog = <<>>

\* No multiError.Error call is under way.
NotRendered == "(Error not called)"
InitText == merr = <<>> /\ text = NotRendered

\* One singleConnPool S over H and one roundRobinConnPool P over the first
\* N conns, 1 <= N <= MaxN.
Init ==
  /\ conn = [p \in {"S"} |-> SingleConnName]
  /\ \E n \in 1..MaxN : conns = [p \in {"P"} |-> SubSeq(ConnNames, 1, n)]
  /\ idx \in [{"P"} -> StartIdx]
  /\ closeCount = [h \in AllConns |-> 0]
  /\ InitThreads
  /\ InitHistory
  /\ InitText

\* ------------------------------------------------------ singleConnPool.Conn
\* A variant that gives no conn once the pool's conn has been closed.
SingleSelectUnlessClosed(p) == IF closeCount[conn[p]] > 0 THEN "none" ELSE conn[p]

\* p.conn
SingleSelect(p) == conn[p]

\* return p.conn
SingleConn(t, p) ==
  /\ pc[t] = "idle"
  /\ MayConn
  /\ p \in SinglePools
  /\ nConns' = nConns + 1
  /\ singleRet' = [singleRet EXCEPT ![p] = Append(@, SingleSelect(p))]
  /\ late' = LateAfter(p)
  /\ UNCHANGED <<textVars, progVars, threadVars, idx0, ticks, rrRet, closeLog>>

\* -------------------------------------------------- roundRobinConnPool.Conn
\* A variant with one counter for all pools: every pool's idx moves.
RRConnAddGlobalCounter(t, p) ==
  /\ pc[t] = "idle"
  /\ MayConn
  /\ p \in RRPools
  /\ nConns' = nConns + 1
  /\ idx' = [q \in RRPools |-> AddUint32(idx[q], 1)]
  /\ i' = [i EXCEPT ![t] = idx'[p]]
  /\ rcv' = [rcv EXCEPT ![t] = p]
  /\ pc' = [pc EXCEPT ![t] = "rrIndex"]
  /\ ticks' = [ticks EXCEPT ![p] = Append(@, idx'[p])]
  /\ late' = LateAfter(p)
  /\ UNCHANGED <<textVars, conn, conns, closeCount, k, errs, call, idx0, rrRet, singleRet, closeLog>>

\* A variant that refuses once a Close call on the pool has returned.
RRConnAddUnlessClosed(t, p) ==
  /\ pc[t] = "idle"
  /\ MayConn
  /\ p \in RRPools
  /\ ~Closed(p)
  /\ nConns' = nConns + 1
  /\ idx' = [idx EXCEPT ![p] = AddUint32(idx[p], 1)]
  /\ i' = [i EXCEPT ![t] = idx'[p]]
  /\ rcv' = [rcv EXCEPT ![t] = p]
  /\ pc' = [pc EXCEPT ![t] = "rrIndex"]
  /\ ticks' = [ticks EXCEPT ![p] = Append(@, idx'[p])]
  /\ late' = LateAfter(p)
  /\ UNCHANGED <<textVars, conn, conns, closeCount, k, errs, call, idx0, rrRet, singleRet, closeLog>>

\* i := atomic.AddUint32(&p.idx, 1): one atomic read-modify-write.
RRConnAdd(t, p) ==
  /\ pc[t] = "idle"
  /\ MayConn
  /\ p \in RRPools
  /\ nConns' = nConns + 1
  /\ idx' = [idx EXCEPT ![p] = AddUint32(idx[p], 1)]
  /\ i' = [i EXCEPT ![t] = idx'[p]]
  /\ rcv' = [rcv EXCEPT ![t] = p]
  /\ pc' = [pc EXCEPT ![t] = "rrIndex"]
  /\ ticks' = [ticks EXCEPT ![p] = Append(@, idx'[p])]
  /\ late' = LateAfter(p)
  /\ UNCHANGED <<textVars, conn, conns, closeCount, k, errs, call, idx0, rrRet, singleRet, closeLog>>

\* A variant that waits while a Close call is inside a conn's Close, as it
\* would if Conn and Close shared a lock.
RRConnReturnLocked(t) ==
  /\ pc[t] = "rrIndex"
  /\ \A u \in Threads : pc[u] \notin {"rrInClose", "sInClose"}
  /\ rrRet' = [rrRet EXCEPT ![rcv[t]] = Append(@, [i |-> i[t], conn |-> RRSelect(rcv[t], i[t])])]
  /\ pc' = [pc EXCEPT ![t] = "idle"]
  /\ rcv' = [rcv EXCEPT ![t] = "none"]
  /\ i' = [i EXCEPT ![t] = Zero32]
  /\ UNCHANGED <<textVars, progVars, k, errs, call, nConns, idx0, ticks, singleRet, late, closeLog>>

\* A variant that also rotates p.conns, keeping the next conn at its head.
RRConnReturnRotating(t) ==
  /\ pc[t] = "rrIndex"
  /\ rrRet' = [rrRet EXCEPT ![rcv[t]] = Append(@, [i |-> i[t], conn |-> RRSelect(rcv[t], i[t])])]
  /\ conns' = [conns EXCEPT ![rcv[t]] = Append(Tail(@), Head(@))]
  /\ pc' = [pc EXCEPT ![t] = "idle"]
  /\ rcv' = [rcv EXCEPT ![t] = "none"]
  /\ i' = [i EXCEPT ![t] = Zero32]
  /\ UNCHANGED <<textVars, conn, idx, closeCount, k, errs, call, nConns, idx0, ticks, singleRet, late, closeLog>>

\* return p.conns[i%uint32(len(p.conns))]; the call's locals end with it.
RRConnReturn(t) ==
  /\ pc[t] = "rrIndex"
  /\ rrRet' = [rrRet EXCEPT ![rcv[t]] = Append(@, [i |-> i[t], conn |-> RRSelect(rcv[t], i[t])])]
  /\ pc' = [pc EXCEPT ![t] = "idle"]
  /\ rcv' = [rcv EXCEPT ![t] = "none"]
  /\ i' = [i EXCEPT ![t] = Zero32]
  /\ UNCHANGED <<textVars, progVars, k, errs, call, nConns, idx0, ticks, singleRet, late, closeLog>>

\* ----------------------------------------------------- singleConnPool.Close
\* A variant that aggregates the one result as the round-robin pool does.
SingleCloseAggregated(e) == IF e = Nil THEN NoError ELSE MultiError(<<e>>)

\* What singleConnPool.Close returns when p.conn.Close() gave e: e itself.
SingleCloseResult(e) == RawError(e)

\* A Close call starts: its entry in the history.
NewClose(p) == [pool |-> p, calls |-> <<>>, outs |-> <<>>, ret |-> Pending]

\* return p.conn.Close(): the ClientConn's Close is entered ...
SingleCloseCall(t, p) ==
  /\ pc[t] = "idle"
  /\ MayClose
  /\ p \in SinglePools
  /\ call' = [call EXCEPT ![t] = nCloses + 1]
  /\ rcv' = [rcv EXCEPT ![t] = p]
  /\ pc' = [pc EXCEPT ![t] = "sInClose"]
  /\ closeCount' = [closeCount EXCEPT ![conn[p]] = @ + 1]
  /\ closeLog' = Append(closeLog, [NewClose(p) EXCEPT !.calls = <<conn[p]>>])
  /\ UNCHANGED <<textVars, conn, conns, idx, i, k, errs, connHist>>

\* ... and gives e (nil or an error), which Close returns.
SingleCloseReturn(t, e) ==
  /\ pc[t] = "sInClose"
  /\ e \in CloseOutcomes(conn[rcv[t]])
  /\ closeLog' = [closeLog EXCEPT ![call[t]].outs = Append(@, e),
                                  ![call[t]].ret = SingleCloseResult(e)]
  /\ pc' = [pc EXCEPT ![t] = "idle"]
  /\ rcv' = [rcv EXCEPT ![t] = "none"]
  /\ call' = [call EXCEPT ![t] = 0]
  /\ UNCHANGED <<textVars, progVars, i, k, errs, connHist>>

\* ------------------------------------------------- roundRobinConnPool.Close
\* A variant without the nil check.
CollectErrUnchecked(es, e) == Append(es, e)

\* if err := conn.Close(); err != nil { errs = append(errs, err) }
CollectErr(es, e) == IF e # Nil THEN Append(es, e) ELSE es

\* A variant that leaves the loop at the first failure.
RangeNextBreakOnError(kv, e) == IF e # Nil THEN kv + Len(ConnNames) ELSE kv + 1

\* The range loop goes on to the next conn whatever the last Close gave.
RangeNext(kv, e) == kv + 1

\* A variant that returns the error itself when only one conn failed.
RRCloseResultUnwrappingOne(es) ==
  IF Len(es) = 0 THEN NoError ELSE IF Len(es) = 1 THEN RawError(es[1]) ELSE MultiError(es)

\* if len(errs) == 0 { return nil }; return errs
RRCloseResult(es) == IF Len(es) = 0 THEN NoError ELSE MultiError(es)

\* A goroutine's steps between two of its conn.Close() calls touch only its own
\* locals, so they are taken together with the step before them: a Close call
\* is seen where it is suspended inside a conn's Close, "rrInClose".

\* A variant that closes the conns once only: a Close call on a pool on which
\* a Close call has returned returns nil at once.
RRCloseBeginOnce(t, p) ==
  /\ pc[t] = "idle"
  /\ MayClose
  /\ p \in RRPools
  /\ IF Closed(p)
     THEN /\ closeLog' = Append(closeLog, [NewClose(p) EXCEPT !.ret = NoError])
          /\ UNCHANGED <<closeCount, threadVars>>
     ELSE /\ call' = [call EXCEPT ![t] = nCloses + 1]
          /\ rcv' = [rcv EXCEPT ![t] = p]
          /\ k' = [k EXCEPT ![t] = 1]
          /\ errs' = [errs EXCEPT ![t] = <<>>]
          /\ pc' = [pc EXCEPT ![t] = "rrInClose"]
          /\ closeCount' = [closeCount EXCEPT ![conns[p][1]] = @ + 1]
          /\ closeLog' = Append(closeLog, [NewClose(p) EXCEPT !.calls = <<conns[p][1]>>])
          /\ UNCHANGED i
  /\ UNCHANGED <<textVars, conn, conns, idx, connHist>>

\* var errs multiError; the range loop starts and conn.Close() is entered for
\* the first conn (p.conns is never empty).
RRCloseBegin(t, p) ==
  /\ pc[t] = "idle"
  /\ MayClose
  /\ p \in RRPools
  /\ call' = [call EXCEPT ![t] = nCloses + 1]
  /\ rcv' = [rcv EXCEPT ![t] = p]
  /\ k' = [k EXCEPT ![t] = 1]
  /\ errs' = [errs EXCEPT ![t] = <<>>]
  /\ pc' = [pc EXCEPT ![t] = "rrInClose"]
  /\ closeCount' = [closeCount EXCEPT ![conns[p][1]] = @ + 1]
  /\ closeLog' = Append(closeLog, [NewClose(p) EXCEPT !.calls = <<conns[p][1]>>])
  /\ UNCHANGED <<textVars, conn, conns, idx, i, connHist>>

\* conn.Close() gives e; a non-nil e is appended to errs and the loop moves
\* on: to the next conn, whose Close is entered, ...
RRCloseNext(t, e) ==
  /\ pc[t] = "rrInClose"
  /\ e \in CloseOutcomes(conns[rcv[t]][k[t]])
  /\ RangeNext(k[t], e) <= Len(conns[rcv[t]])
  /\ errs' = [errs EXCEPT ![t] = CollectErr(@, e)]
  /\ k' = [k EXCEPT ![t] = RangeNext(@, e)]
  /\ closeCount' = [closeCount EXCEPT ![conns[rcv[t]][k'[t]]] = @ + 1]
  /\ closeLog' = [closeLog EXCEPT ![call[t]].outs = Append(@, e),
                                  ![call[t]].calls = Append(@, conns[rcv[t]][k'[t]])]
  /\ UNCHANGED <<textVars, conn, conns, idx, pc, rcv, i, call, connHist>>

\* A variant whose return waits until no Conn call is under way, as it would
\* if Close and Conn shared a lock.
RRCloseDoneWaits(t, e) ==
  /\ pc[t] = "rrInClose"
  /\ \A u \in Threads : pc[u] # "rrIndex"
  /\ e \in CloseOutcomes(conns[rcv[t]][k[t]])
  /\ RangeNext(k[t], e) > Len(conns[rcv[t]])
  /\ closeLog' = [closeLog EXCEPT ![call[t]].outs = Append(@, e),
                                  ![call[t]].ret = RRCloseResult(CollectErr(errs[t], e))]
  /\ pc' = [pc EXCEPT ![t] = "idle"]
  /\ rcv' = [rcv EXCEPT ![t] = "none"]
  /\ k' = [k EXCEPT ![t] = 0]
  /\ errs' = [errs EXCEPT ![t] = <<>>]
  /\ call' = [call EXCEPT ![t] = 0]
  /\ UNCHANGED <<textVars, progVars, i, connHist>>

\* ... or, past the last conn, to the end of the loop, and Close returns nil
\* or the collected errs.
RRCloseDone(t, e) ==
  /\ pc[t] = "rrInClose"
  /\ e \in CloseOutcomes(conns[rcv[t]][k[t]])
  /\ RangeNext(k[t], e) > Len(conns[rcv[t]])
  /\ closeLog' = [closeLog EXCEPT ![call[t]].outs = Append(@, e),
                                  ![call[t]].ret = RRCloseResult(CollectErr(errs[t], e))]
  /\ pc' = [pc EXCEPT ![t] = "idle"]
  /\ rcv' = [rcv EXCEPT ![t] = "none"]
  /\ k' = [k EXCEPT ![t] = 0]
  /\ errs' = [errs EXCEPT ![t] = <<>>]
  /\ call' = [call EXCEPT ![t] = 0]
  /\ UNCHANGED <<textVars, progVars, i, connHist>>

\* ---------------------------------------------------------- multiError.Error
\* e.Error() for an error a ClientConn's Close gave: the model names each such
\* error value by its message.
Message(e) == e

\* s, n := "", 0; for _, e := range m { if e != nil { if n == 0 { s =
\* e.Error() }; n++ } }: the loop from entry j on, with s and n so far.
RECURSIVE ScanErrs(_, _, _, _)
ScanErrs(m, j, s, n) ==
  IF j > Len(m) THEN [s |-> s, n |-> n]
  ELSE IF m[j] # Nil
       THEN ScanErrs(m, j + 1, IF n = 0 THEN Message(m[j]) ELSE s, n + 1)
       ELSE ScanErrs(m, j + 1, s, n)

\* A variant that writes "errors" for one other error as well.
ErrorSwitchAlwaysPlural(s, n) ==
  IF n = 0 THEN "(0 errors)"
  ELSE IF n = 1 THEN s
  ELSE s \o " (and " \o ToString(n - 1) \o " other errors)"

\* switch n { case 0: ...; case 1: ...; case 2: ... };
\* return fmt.Sprintf("%s (and %d other errors)", s, n-1)
ErrorSwitch(s, n) ==
  CASE n = 0 -> "(0 errors)"
    [] n = 1 -> s
    [] n = 2 -> s \o " (and 1 other error)"
    [] OTHER -> s \o " (and " \o ToString(n - 1) \o " other errors)"

\* A variant that takes len(m) for the number of errors, nil entries included.
MultiErrorTextByLen(m) == LET r == ScanErrs(m, 1, "", 0) IN ErrorSwitch(r.s, Len(m))

\* func (m multiError) Error() string
MultiErrorText(m) == LET r == ScanErrs(m, 1, "", 0) IN ErrorSwitch(r.s, r.n)

\* m.Error() is called on the multiError value at hand.
Render ==
  /\ text = NotRendered
  /\ text' = MultiErrorText(merr)
  /\ UNCHANGED <<progVars, threadVars, connHist, closeLog, merr>>

\* The multiError values Error() is called on: up to MaxErrs entries, each nil
\* or an error with message x, y or z.
RenderInputs == UNION {[1..n -> {Nil, "x", "y", "z"}] : n \in 0..MaxErrs}

\* A multiError value is at hand; the pools are as constructed, over one conn.
InitRender ==
  /\ conn = [p \in {"S"} |-> SingleConnName]
  /\ conns = [p \in {"P"} |-> SubSeq(ConnNames, 1, 1)]
  /\ idx = [p \in {"P"} |-> Zero32]
  /\ closeCount = [h \in AllConns |-> 0]
  /\ InitThreads
  /\ InitHistory
  /\ merr \in RenderInputs
  /\ text = NotRendered

SpecRender == InitRender /\ [][Render]_vars

\* ---------------------------------------------------------------------- Next
AllErrs == {ErrOf(h) : h \in AllConns}

Step(t) ==
  \/ \E p \in Pools : SingleConn(t, p)
  \/ \E p \in Pools : RRConnAdd(t, p)
  \/ RRConnReturn(t)
  \/ \E p \in Pools : SingleCloseCall(t, p)
  \/ \E e \in {Nil} \cup AllErrs : SingleCloseReturn(t, e)
  \/ \E p \in Pools : RRCloseBegin(t, p)
  \/ \E e \in {Nil} \cup AllErrs : RRCloseNext(t, e)
  \/ \E e \in {Nil} \cup AllErrs : RRCloseDone(t, e)

Next == \E t \in Threads : Step(t)

Spec == Init /\ [][Next]_vars

\* The single pool S is built over the conn that is the first of P's conns:
\* with N = 1, S and P are the two kinds of pool over one and the same conn.
InitShared ==
  /\ conn = [p \in {"S"} |-> ConnNames[1]]
  /\ \E n \in 1..MaxN : conns = [p \in {"P"} |-> SubSeq(ConnNames, 1, n)]
  /\ idx \in [{"P"} -> StartIdx]
  /\ closeCount = [h \in AllConns |-> 0]
  /\ InitThreads
  /\ InitHistory
  /\ InitText

SpecShared == InitShared /\ [][Next]_vars

\* The conn.Close() call a round-robin Close call is suspended in returns.
ConnCloseReturns(t) ==
  \E e \in {Nil} \cup AllErrs : RRCloseNext(t, e) \/ RRCloseDone(t, e)

\* Every conn.Close() call made by roundRobinConnPool.Close eventually
\* returns; of the goroutines' scheduling nothing else is assumed.
SpecLive == Spec /\ \A t \in Threads : WF_vars(ConnCloseReturns(t))

\* Two roundRobinConnPools and no single pool: P over the first N conns,
\* 1 <= N <= MaxN, and Q over the last two, each with an idx of its own.
InitTwo ==
  /\ conn = [p \in {} |-> SingleConnName]
  /\ \E n \in 1..MaxN :
       conns = [p \in {"P", "Q"} |->
                 IF p = "P" THEN SubSeq(ConnNames, 1, n)
                 ELSE SubSeq(ConnNames, Len(ConnNames) - 1, Len(ConnNames))]
  /\ idx \in [{"P", "Q"} -> StartIdx]
  /\ closeCount = [h \in AllConns |-> 0]
  /\ InitThreads
  /\ InitHistory
  /\ InitText

\* The steps of calls on round-robin pools.
StepRR(t) ==
  \/ \E p \in Pools : RRConnAdd(t, p)
  \/ RRConnReturn(t)
  \/ \E p \in Pools : RRCloseBegin(t, p)
  \/ \E e \in {Nil} \cup AllErrs : RRCloseNext(t, e)
  \/ \E e \in {Nil} \cup AllErrs : RRCloseDone(t, e)

\* Calls on the two pools, one after another in any order.
NextTwo == StepRR("g1")

SpecTwo == InitTwo /\ [][NextTwo]_vars

\* Sequential use: all calls are made by one goroutine, each after the last.
NextSeq == Step("g1")

SpecSeq == Init /\ [][NextSeq]_vars

\* ============================================================== properties
NConns(p) == Len(conns[p])

\* The 0-based index of conn h in p.conns (the conns of a pool are distinct).
IndexOf(p, h) == (CHOOSE j \in 1..NConns(p) : conns[p][j] = h) - 1

\* b is a + 1 as integers; no uint32 is the successor of 2^32 - 1.
IntSucc(a, b) ==
  \/ b.hi = a.hi /\ b.lo = a.lo + 1
  \/ b.hi = a.hi + 1 /\ a.lo = Half - 1 /\ b.lo = 0

\* b is a + 1 modulo 2^32.
Succ32(a, b) == IF a = MaxUint32 THEN b = Zero32 ELSE IntSucc(a, b)

\* K mod n for a uint32 K = hi * 2^16 + lo and a small n.
Mod32(K, n) == LET h == K.hi % n  b == Half % n IN (h * b + K.lo) % n

\* Every Conn call on p that has returned gave p.conns[K mod N] for the value
\* K it observed.
ReturnedAtKModN(p) ==
  \A j \in 1..Len(rrRet[p]) :
    IndexOf(p, rrRet[p][j].conn) = Mod32(rrRet[p][j].i, NConns(p))

\* The goroutines inside Conn on p, past the increment.
InFlight(p) == {t \in Threads : pc[t] = "rrIndex" /\ rcv[t] = p}

\* The Close calls that have returned.
Returned == {c \in 1..Len(closeLog) : closeLog[c].ret # Pending}

\* ----------------------------------------------------------------------- C1
\* C1: on a pool constructed with idx = 0, the k-th of a goroutine's sequential
\* Conn calls returns p.conns[k mod N] (0-based): the first returns index
\* 1 mod N, not index 0, and over conns A, B, C four calls return B, C, A, B.
C1_KthCallReturnsKModN ==
  \A p \in RRPools :
    idx0[p] = Zero32 =>
      /\ \A j \in 1..Len(rrRet[p]) :
           /\ rrRet[p][j].i = U32(0, j)
           /\ IndexOf(p, rrRet[p][j].conn) = j % NConns(p)
      /\ conns[p] = <<"A", "B", "C">> =>
           \A j \in 1..Len(rrRet[p]) : j <= 4 => rrRet[p][j].conn = <<"B", "C", "A", "B">>[j]

\* Four sequential calls on a fresh pool over A, B, C have returned.
C1_Witness ==
  /\ idx0["P"] = Zero32
  /\ conns["P"] = <<"A", "B", "C">>
  /\ Len(rrRet["P"]) = 4

\* ----------------------------------------------------------------------- C2
\* The values the Conn calls on p have observed: those of the calls past the
\* increment and those of the calls that have returned.
ObservedBy(p) == {i[t] : t \in InFlight(p)} \cup {rrRet[p][j].i : j \in 1..Len(rrRet[p])}

\* What C2 says of every pool but for the kind of successor: M calls have
\* observed M distinct values, each the successor of the one before and the
\* first the successor of the start value, the counter is at the last of
\* them, and the call that observed K returned p.conns[K mod N].
TicksInOrder(p, Next1(_, _)) ==
  LET M == Len(ticks[p]) IN
  /\ Cardinality(InFlight(p)) + Len(rrRet[p]) = M
  /\ ObservedBy(p) = {ticks[p][j] : j \in 1..M}
  /\ Cardinality(ObservedBy(p)) = M
  /\ \A j \in 1..M : Next1(IF j = 1 THEN idx0[p] ELSE ticks[p][j - 1], ticks[p][j])
  /\ idx[p] = IF M = 0 THEN idx0[p] ELSE ticks[p][M]

\* C2 as stated: the values observed are consecutive integers, and the counter
\* ends at its start value plus M.
C2_Original == \A p \in RRPools : TicksInOrder(p, IntSucc) /\ ReturnedAtKModN(p)

\* C2, amended: under every interleaving the M values observed are the M
\* successive values after the start value modulo 2^32, all distinct, the
\* counter ends at the last of them, and the call that observed K returned
\* p.conns[K mod N].
C2_DistinctSuccessiveTicks ==
  \A p \in RRPools :
    /\ TicksInOrder(p, Succ32)
    /\ ReturnedAtKModN(p)

\* Two calls are past the increment at once and two more have returned.
C2_Witness ==
  /\ Cardinality(InFlight("P")) = 2
  /\ Len(rrRet["P"]) = 2
  /\ NConns("P") = 3

\* ----------------------------------------------------------------------- C3
\* C3: a roundRobinConnPool.Close call that has returned invoked Close on
\* every conn of p.conns exactly once, in the order of p.conns, whatever each
\* gave; a call still running has done so for a prefix of p.conns.
C3_CloseVisitsAllInOrder ==
  \A c \in 1..Len(closeLog) :
    LET e == closeLog[c] IN
    e.pool \in RRPools =>
      /\ Len(e.calls) <= NConns(e.pool)
      /\ e.calls = SubSeq(conns[e.pool], 1, Len(e.calls))
      /\ c \in Returned => /\ e.calls = conns[e.pool]
                            /\ Len(e.outs) = NConns(e.pool)

\* A Close call over three conns has returned although its first conn failed.
C3_Witness ==
  \E c \in Returned :
    /\ closeLog[c].pool = "P"
    /\ NConns("P") = 3
    /\ closeLog[c].outs[1] # Nil
    /\ closeLog[c].outs[3] = Nil

\* ----------------------------------------------------------------------- C4
\* The non-nil entries of a sequence of results, in order.
Failures(outs) == SelectSeq(outs, LAMBDA e : e # Nil)

\* C4: roundRobinConnPool.Close returns nil exactly when every conn's Close
\* gave nil; otherwise it returns a multiError whose entries are the non-nil
\* results, as given and in the order the conns were closed: between 1 and N
\* entries, none of them nil.
C4_CloseAggregatesFailures ==
  \A c \in Returned :
    LET e == closeLog[c] IN
    e.pool \in RRPools =>
      /\ e.ret.kind = "nil" <=> \A j \in 1..Len(e.outs) : e.outs[j] = Nil
      /\ e.ret.kind \in {"nil", "multiError"}
      /\ e.ret.kind = "multiError" =>
           /\ e.ret.errs = Failures(e.outs)
           /\ Len(e.ret.errs) \in 1..NConns(e.pool)
           /\ \A j \in 1..Len(e.ret.errs) : e.ret.errs[j] # Nil
           /\ \A j \in 1..Len(e.outs) :
                e.outs[j] # Nil => e.outs[j] = ErrOf(conns[e.pool][j])

\* A Close call has returned the failures of the first and the third conn.
C4_Witness ==
  \E c \in Returned :
    /\ closeLog[c].pool = "P"
    /\ closeLog[c].outs = <<"errA", Nil, "errC">>
    /\ closeLog[c].ret.errs = <<"errA", "errC">>

\* ----------------------------------------------------------------------- C5
\* C5: Conn never fails: for every value a call has observed, after a wrap
\* too, the index computed is in 0..N-1 and the conn returned is one of
\* p.conns; the single pool returns its conn.
C5_ConnIndexInRange ==
  /\ \A p \in RRPools :
       /\ \A t \in InFlight(p) : ConnIndex(i[t], NConns(p)) \in 0..(NConns(p) - 1)
       /\ \A j \in 1..Len(rrRet[p]) :
            \E m \in 1..NConns(p) : rrRet[p][j].conn = conns[p][m]
  /\ \A p \in SinglePools :
       \A j \in 1..Len(singleRet[p]) : singleRet[p][j] = conn[p]

\* Calls on either side of a wrap have returned.
C5_Witness ==
  /\ idx0["P"] # Zero32
  /\ NConns("P") = 3
  /\ \E j \in 1..Len(rrRet["P"]) : rrRet["P"][j].i = MaxUint32
  /\ \E j \in 1..Len(rrRet["P"]) : rrRet["P"][j].i = U32(0, 1)
  /\ Len(singleRet["S"]) > 0

\* ----------------------------------------------------------------------- C6
\* The steps of Conn calls, told by what they do to the goroutines and to the
\* record of returned calls.
IsSingleConnStep == \E p \in SinglePools : singleRet'[p] # singleRet[p]
IsRRAddStep(t) == pc[t] = "idle" /\ pc'[t] = "rrIndex"
IsRRReturnStep(t) == pc[t] = "rrIndex" /\ pc'[t] = "idle"
IsConnStep == IsSingleConnStep \/ \E t \in Threads : IsRRAddStep(t) \/ IsRRReturnStep(t)

\* C6 as stated: no step of a Conn call changes any part of a pool's state,
\* the selection counter included.
C6_Original == [][IsConnStep => UNCHANGED <<conn, conns, idx, closeCount>>]_vars

\* C6, amended: a Conn call leaves the conns of every pool and every conn's
\* closed status unchanged; singleConnPool.Conn changes nothing of the pools
\* at all; roundRobinConnPool.Conn changes one thing, its own pool's idx,
\* which its increment advances by one modulo 2^32.
C6_ConnChangesOnlyIdx ==
  [][/\ IsConnStep => UNCHANGED <<conn, conns, closeCount>>
     /\ IsSingleConnStep => UNCHANGED idx
     /\ \A t \in Threads :
          /\ IsRRReturnStep(t) => UNCHANGED idx
          /\ IsRRAddStep(t) =>
               /\ Succ32(idx[rcv'[t]], idx'[rcv'[t]])
               /\ \A q \in RRPools \ {rcv'[t]} : idx'[q] = idx[q]]_vars

\* Conn calls on both pools have returned, and idx has moved.
C6_Witness ==
  /\ Len(rrRet["P"]) >= 2
  /\ Len(singleRet["S"]) >= 1
  /\ idx["P"] # idx0["P"]
  /\ NConns("P") >= 2

\* ----------------------------------------------------------------------- C7
\* n divides 2^32 = Half * Half.
DividesPow32(n) == ((Half % n) * (Half % n)) % n = 0

\* The pairs of returned calls on p of which the first observed 2^32 - 1 and
\* the second, the call that wrapped the counter, observed 0.
WrapPairs(p) ==
  {ab \in (1..Len(rrRet[p])) \X (1..Len(rrRet[p])) :
     rrRet[p][ab[1]].i = MaxUint32 /\ rrRet[p][ab[2]].i = Zero32}

\* The conn of the second call follows the conn of the first in the rotation.
IsCyclicSuccessor(p, ab) ==
  IndexOf(p, rrRet[p][ab[2]].conn) = (IndexOf(p, rrRet[p][ab[1]].conn) + 1) % NConns(p)

\* C7 as stated: for every N the call that wraps the counter returns the
\* cyclic successor of the conn the call before it returned.
C7_Original == \A p \in RRPools : \A ab \in WrapPairs(p) : IsCyclicSuccessor(p, ab)

\* C7, amended: the call that wraps the counter returns a valid conn, the one
\* at index 0; it is the cyclic successor of the conn the call before it
\* returned exactly when N divides 2^32 (N a power of two).
C7_WrapKeepsRotationIffPowerOfTwo ==
  \A p \in RRPools : \A ab \in WrapPairs(p) :
    /\ rrRet[p][ab[2]].conn = conns[p][1]
    /\ IsCyclicSuccessor(p, ab) <=> DividesPow32(NConns(p))

\* The calls on either side of the wrap have returned, on a pool of three.
C7_Witness == WrapPairs("P") # {} /\ NConns("P") = 3

\* ----------------------------------------------------------------------- C8
\* C8: singleConnPool.Close invokes Close on its one conn, once per call, and
\* returns what that gave: nil for nil, the same error value for an error,
\* never a multiError.
C8_SingleCloseVerbatim ==
  /\ \A c \in 1..Len(closeLog) :
       LET e == closeLog[c] IN
       e.pool \in SinglePools =>
         /\ e.calls = <<conn[e.pool]>>
         /\ c \in Returned =>
              /\ Len(e.outs) = 1
              /\ e.outs[1] = Nil => e.ret.kind = "nil"
              /\ e.outs[1] # Nil =>
                   /\ e.ret.kind = "error"
                   /\ e.ret.err = e.outs[1]
                   /\ e.ret.err = ErrOf(conn[e.pool])
  /\ \A p \in SinglePools :
       closeCount[conn[p]] = Cardinality({c \in 1..Len(closeLog) : closeLog[c].pool = p})

\* One Close call on the single pool returned nil and another an error.
C8_Witness ==
  \E c, d \in Returned :
    /\ closeLog[c].pool = "S" /\ closeLog[c].ret.kind = "nil"
    /\ closeLog[d].pool = "S" /\ closeLog[d].ret.kind = "error"

\* ----------------------------------------------------------------------- C9
\* C9: every singleConnPool.Conn call returns the conn the pool was
\* constructed with, however many calls went before and whatever else runs.
C9_SingleConnAlwaysSame ==
  \A p \in SinglePools : \A j \in 1..Len(singleRet[p]) : singleRet[p][j] = SingleConnName

\* Three Conn calls on the single pool have returned, and its conn was closed.
C9_Witness == Len(singleRet["S"]) = 3 /\ closeCount[SingleConnName] > 0

\* ---------------------------------------------------------------------- C10
\* C10: Conn never blocks: a goroutine that is idle can start a Conn call on
\* either pool, and one inside roundRobinConnPool.Conn can take its next
\* step, whatever the other goroutines are doing.
C10_ConnNeverBlocks ==
  \A t \in Threads :
    /\ (pc[t] = "idle" /\ MayConn) =>
         /\ \A p \in SinglePools : ENABLED SingleConn(t, p)
         /\ \A p \in RRPools : ENABLED RRConnAdd(t, p)
    /\ pc[t] = "rrIndex" => ENABLED RRConnReturn(t)

\* A Conn call is past its increment while a Close call on the same pool is
\* suspended inside a conn's Close.
C10_Witness ==
  \E t, u \in Threads :
    /\ pc[t] = "rrIndex" /\ rcv[t] = "P"
    /\ pc[u] = "rrInClose" /\ rcv[u] = "P"

\* ---------------------------------------------------------------------- C11
\* C11: the conns of a pool are never changed after construction: no step of
\* any Conn or Close call changes p.conns (its length, members or order) or
\* the single pool's conn; of the pools' fields only idx ever changes.
C11_ConnsImmutable == [][UNCHANGED <<conn, conns>>]_vars

\* Conn and Close calls on a pool of three have returned, and idx has moved.
C11_Witness ==
  /\ conns["P"] = <<"A", "B", "C">>
  /\ Len(rrRet["P"]) >= 2
  /\ idx["P"] # idx0["P"]
  /\ \E c \in Returned : closeLog[c].pool = "P"

\* ---------------------------------------------------------------------- C13
\* The positions of the non-nil entries of m.
NonNil(m) == {j \in 1..Len(m) : m[j] # Nil}

\* The text C13 gives for m: by the number n of non-nil entries and the
\* message s of the first of them.
ExpectedText(m) ==
  LET n == Cardinality(NonNil(m))
      s == Message(m[CHOOSE j \in NonNil(m) : \A h \in NonNil(m) : j <= h])
  IN IF n = 0 THEN "(0 errors)"
     ELSE IF n = 1 THEN s
     ELSE IF n = 2 THEN s \o " (and 1 other error)"
     ELSE IF n = 3 THEN s \o " (and 2 other errors)"
     ELSE IF n = 4 THEN s \o " (and 3 other errors)"
     ELSE s \o " (and " \o ToString(n - 1) \o " other errors)"

\* C13: the text of a multiError is decided by the number n of its non-nil
\* entries and the message s of the first of them, nil entries being skipped:
\* "(0 errors)", s, s + " (and 1 other error)", s + " (and <n-1> other errors)".
C13_ErrorTextByCount ==
  text # NotRendered =>
    /\ text = ExpectedText(merr)
    /\ merr = <<>> => text = "(0 errors)"
    /\ merr = <<"x">> => text = "x"
    /\ merr = <<"x", "y">> => text = "x (and 1 other error)"
    /\ merr = <<"x", "y", "z">> => text = "x (and 2 other errors)"
    /\ merr = <<Nil, "y", Nil>> => text = "y"
    /\ merr = <<Nil, Nil>> => text = "(0 errors)"

\* Error() has been called on a multiError whose first entry is nil and which
\* holds two errors.
C13_Witness == merr = <<Nil, "z", "x">> /\ text = "z (and 1 other error)"

\* ---------------------------------------------------------------------- C12
\* S and P are a single pool and a round-robin pool over the same one conn.
SamePoolOverOne == NConns("P") = 1 /\ conn["S"] = conns["P"][1]

\* What C12 says of Conn and of the closing: on both pools every Conn call
\* returns h, and every Close call invokes h's Close once.
SameConnAndClosing ==
  LET h == conn["S"] IN
  /\ \A j \in 1..Len(singleRet["S"]) : singleRet["S"][j] = h
  /\ \A j \in 1..Len(rrRet["P"]) : rrRet["P"][j].conn = h
  /\ \A c \in 1..Len(closeLog) : closeLog[c].calls = <<h>>
  /\ \A c \in Returned : Len(closeLog[c].outs) = 1

\* The pairs of returned Close calls, one on S and one on P, in which h's
\* Close gave the same.
SameOutcome ==
  {cd \in Returned \X Returned :
     /\ closeLog[cd[1]].pool = "S"
     /\ closeLog[cd[2]].pool = "P"
     /\ closeLog[cd[1]].outs = closeLog[cd[2]].outs}

\* C12 as stated: the two pools cannot be told apart; in particular their
\* Close calls return the same value when h's Close gave the same.
C12_Original ==
  SamePoolOverOne =>
    /\ SameConnAndClosing
    /\ \A cd \in SameOutcome : closeLog[cd[1]].ret = closeLog[cd[2]].ret

\* C12, amended: over one conn h the two pools agree on Conn (always h), on
\* the closing (h's Close once per Close call) and on whether Close fails;
\* when h's Close gives an error e, the single pool returns e itself and the
\* round-robin pool a multiError whose one entry is e and whose text is e's.
C12_SameButForWrapping ==
  SamePoolOverOne =>
    /\ SameConnAndClosing
    /\ \A cd \in SameOutcome :
         LET e == closeLog[cd[1]].outs[1]
             rs == closeLog[cd[1]].ret
             rp == closeLog[cd[2]].ret
         IN /\ e = Nil => rs.kind = "nil" /\ rp.kind = "nil"
            /\ e # Nil => /\ rs.kind = "error" /\ rs.err = e
                          /\ rp.kind = "multiError" /\ rp.errs = <<e>>
                          /\ MultiErrorText(rp.errs) = Message(rs.err)

\* On both pools over the one conn a Conn call has returned and a Close call
\* has returned after the conn's Close failed.
C12_Witness ==
  /\ SamePoolOverOne
  /\ Len(singleRet["S"]) > 0 /\ Len(rrRet["P"]) > 0
  /\ \E cd \in SameOutcome : closeLog[cd[1]].outs[1] # Nil

\* ---------------------------------------------------------------------- C14
\* Goroutine t takes a step of a call on pool p.
StepsOn(t, p) == (rcv[t] = p \/ rcv'[t] = p) /\ (pc'[t] # pc[t] \/ k'[t] # k[t])

\* C14: idx belongs to its pool: a step of a Conn or Close call on one pool
\* leaves every other pool's idx and conns, and what its Conn calls have
\* observed and returned, unchanged; so the conn a pool returns is decided by
\* the number of Conn calls made on that pool alone: its j-th call observes
\* the j-th value after the pool's start value and returns conns[that mod N].
C14_CounterPerPool ==
  /\ [](\A q \in RRPools : TicksInOrder(q, Succ32) /\ ReturnedAtKModN(q))
  /\ [][\A t \in Threads : \A p \in RRPools :
          StepsOn(t, p) =>
            \A q \in RRPools \ {p} :
              /\ idx'[q] = idx[q]
              /\ conns'[q] = conns[q]
              /\ ticks'[q] = ticks[q]
              /\ rrRet'[q] = rrRet[q]]_vars

\* Conn calls have returned on both pools, more on Q than on P, and a Close
\* call on P has returned.
C14_Witness ==
  /\ RRPools = {"P", "Q"}
  /\ Len(rrRet["P"]) = 1
  /\ Len(rrRet["Q"]) = 2
  /\ idx["P"] # idx["Q"]
  /\ \E c \in Returned : closeLog[c].pool = "P"

\* ---------------------------------------------------------------------- C15
\* The returned Conn calls on p that observed one of the n values after s.
Window(p, s, n) ==
  {j \in 1..Len(rrRet[p]) : rrRet[p][j].i.hi = 0 /\ rrRet[p][j].i.lo \in (s + 1)..(s + n)}

\* How many returned Conn calls on p gave h.
TimesReturned(p, h) == Cardinality({j \in 1..Len(rrRet[p]) : rrRet[p][j].conn = h})

\* Whenever the N calls that observed N consecutive values have all returned,
\* each conn of p.conns was returned by exactly one of them.
WindowsExact(p) ==
  \A s \in 0..Len(ticks[p]) :
    LET W == Window(p, s, NConns(p)) IN
    Cardinality(W) = NConns(p) =>
      \A a \in 1..NConns(p) :
        Cardinality({j \in W : rrRet[p][j].conn = conns[p][a]}) = 1

\* The numbers of times two conns of p have been returned differ by at most
\* 1 + slack.
CountsWithin(p, slack) ==
  \A a, b \in 1..NConns(p) :
    TimesReturned(p, conns[p][a]) <= TimesReturned(p, conns[p][b]) + 1 + slack

\* C15 as stated: on a pool constructed with idx = 0 and not yet wrapped,
\* every N calls with consecutive counter values return each conn exactly
\* once, and at any moment the numbers of times any two conns have been
\* returned differ by at most 1.
C15_Original ==
  \A p \in RRPools :
    idx0[p] = Zero32 => WindowsExact(p) /\ CountsWithin(p, 0)

\* C15, amended: on a pool constructed with idx = 0 and not yet wrapped,
\* every N calls with consecutive counter values return each conn exactly
\* once, in whatever order they return; the numbers of times any two conns
\* have been returned differ by at most 1 plus the number of calls that are
\* past their increment and have not returned yet, so by at most 1 once
\* every call made has returned.
C15_Balanced ==
  \A p \in RRPools :
    idx0[p] = Zero32 =>
      /\ WindowsExact(p)
      /\ CountsWithin(p, Cardinality(InFlight(p)))
      /\ InFlight(p) = {} => CountsWithin(p, 0)

\* On a fresh pool over three conns the calls that observed 1, 3 and 4 have
\* returned B, A and B, and the call that observed 2 has not returned yet.
C15_Witness ==
  /\ idx0["P"] = Zero32
  /\ NConns("P") = 3
  /\ \E t \in InFlight("P") : i[t] = U32(0, 2)
  /\ Len(rrRet["P"]) = 3
  /\ TimesReturned("P", "B") = 2
  /\ TimesReturned("P", "C") = 0

\* ---------------------------------------------------------------------- C16
\* The values observed by the Conn calls on p begun after a Close call on p
\* had returned: every call after the first such one is such a call, so they
\* are the last late[p] of the values observed.
LateTicks(p) ==
  {ticks[p][j] : j \in (Len(ticks[p]) - late[p] + 1)..Len(ticks[p])}

\* C16: no closed state guards Conn.  Once a Close call on a pool has
\* returned, a goroutine can still start a Conn call on it and finish it;
\* on the round-robin pool that call moves idx to its successor and returns
\* p.conns[K mod N] for the value K it observed, on the single pool it
\* returns p.conn; and the conn it returns has had its Close invoked.
C16_ConnAfterClose ==
  /\ [](\A t \in Threads : \A p \in Pools :
          /\ (Closed(p) /\ pc[t] = "idle" /\ MayConn) =>
               IF p \in RRPools THEN ENABLED RRConnAdd(t, p)
               ELSE ENABLED SingleConn(t, p)
          /\ (pc[t] = "rrIndex" /\ rcv[t] = p /\ i[t] \in LateTicks(p)) =>
               ENABLED RRConnReturn(t))
  /\ [](\A p \in RRPools : \A j \in 1..Len(rrRet[p]) :
          rrRet[p][j].i \in LateTicks(p) =>
            /\ rrRet[p][j].conn = conns[p][Mod32(rrRet[p][j].i, NConns(p)) + 1]
            /\ closeCount[rrRet[p][j].conn] >= 1)
  /\ [](\A p \in SinglePools : \A j \in 1..Len(singleRet[p]) :
          j > Len(singleRet[p]) - late[p] =>
            /\ singleRet[p][j] = conn[p]
            /\ closeCount[singleRet[p][j]] >= 1)
  /\ [][\A p \in RRPools :
          late'[p] # late[p] =>
            /\ Closed(p)
            /\ Succ32(idx[p], idx'[p])
            /\ \A h \in AllConns : closeCount'[h] = closeCount[h]]_vars

\* On each pool a Conn call begun after a Close call on the pool had
\* returned has itself returned.
C16_Witness ==
  /\ late["S"] = 1
  /\ late["P"] = 1
  /\ NConns("P") >= 2
  /\ \E j \in 1..Len(rrRet["P"]) : rrRet["P"][j].i \in LateTicks("P")

\* ---------------------------------------------------------------------- C17
\* The Close calls begun on pool p, and whether all of them have returned.
ClosesOn(p) == {c \in 1..Len(closeLog) : closeLog[c].pool = p}
AllReturned(p) == ClosesOn(p) \subseteq Returned

\* The errors a result of Close carries.
ErrorsIn(r) == IF r.kind = "error" THEN <<r.err>> ELSE r.errs

\* C17: Close is not idempotent in its effect.  Every Close call on a pool
\* invokes Close on the pool's conns again, whatever Close calls went before
\* or run beside it: at any moment a conn's Close has been invoked once by
\* each Close call that has reached it, and once k Close calls on the pool
\* have returned and none is running, exactly k times on each of its conns.
\* The errors a call returns are the failures its own invocations gave.
C17_CloseNotIdempotent ==
  /\ \A p \in RRPools : \A j \in 1..NConns(p) :
       /\ closeCount[conns[p][j]] =
            Cardinality({c \in ClosesOn(p) : Len(closeLog[c].calls) >= j})
       /\ AllReturned(p) => closeCount[conns[p][j]] = Cardinality(ClosesOn(p))
  /\ \A p \in SinglePools :
       /\ closeCount[conn[p]] =
            Cardinality({c \in ClosesOn(p) : Len(closeLog[c].calls) >= 1})
       /\ AllReturned(p) => closeCount[conn[p]] = Cardinality(ClosesOn(p))
  /\ \A c \in Returned : ErrorsIn(closeLog[c].ret) = Failures(closeLog[c].outs)

\* Two Close calls on a pool of three have returned, the first with nil and
\* the second with the failure of B: each conn's Close was invoked twice.
C17_Witness ==
  /\ conns["P"] = <<"A", "B", "C">>
  /\ Len(closeLog) = 2
  /\ AllReturned("P")
  /\ closeLog[1].pool = "P" /\ closeLog[1].ret = NoError
  /\ closeLog[2].pool = "P" /\ closeLog[2].ret = MultiError(<<"errB">>)
  /\ \A h \in {"A", "B", "C"} : closeCount[h] = 2

\* ---------------------------------------------------------------------- C18
\* C18: provided every conn.Close() it calls returns, a roundRobinConnPool
\* Close call returns, whatever each conn's Close gives, and it has then
\* invoked Close on N conns.  A call suspended in a conn's Close returns, or
\* goes on to the next conn, only in the step in which that Close returns:
\* for as long as it does not, the call does not return and no later conn
\* of p.conns is closed by it.
C18_CloseTerminates ==
  /\ \A t \in Threads : (pc[t] = "rrInClose") ~> (pc[t] = "idle")
  /\ [](\A c \in Returned :
          closeLog[c].pool \in RRPools =>
            /\ Len(closeLog[c].calls) = NConns(closeLog[c].pool)
            /\ Len(closeLog[c].outs) = NConns(closeLog[c].pool))
  /\ [](\A t \in Threads :
          pc[t] = "rrInClose" =>
            /\ closeLog[call[t]].ret = Pending
            /\ Len(closeLog[call[t]].calls) = k[t]
            /\ Len(closeLog[call[t]].outs) = k[t] - 1)
  /\ [][\A t \in Threads :
          pc[t] = "rrInClose" =>
            LET c == call[t] IN
            (closeLog'[c].ret # Pending \/ closeLog'[c].calls # closeLog[c].calls) =>
              Len(closeLog'[c].outs) = Len(closeLog[c].outs) + 1]_vars

\* A Close call over three conns has returned although every conn failed,
\* while another Close call on the pool is suspended in the second conn.
C18_Witness ==
  /\ NConns("P") = 3
  /\ \E c \in Returned :
       /\ closeLog[c].pool = "P"
       /\ closeLog[c].outs = <<"errA", "errB", "errC">>
  /\ \E t \in Threads : pc[t] = "rrInClose" /\ rcv[t] = "P" /\ k[t] = 2

====
